---- MODULE Spec2Model ----
(***************************************************************************)
(* State-machine model of jira-agent/agent.py: the JIRAKnowledgeBase       *)
(* (document builder, metadata extractor, add / search / stats) and the    *)
(* four ADK tool functions built on it.                                    *)
(*                                                                         *)
(* Text is modelled as a sequence of tokens: words ("X", "T-1"), the       *)
(* blank " " and the line break "\n".  Python values are tagged records    *)
(* of one shape so that any two of them can be compared.                   *)
(***************************************************************************)
EXTENDS Integers, Sequences, FiniteSets, TLC

VARIABLES collection, persisted, clock, inflight, ret, lastQuery, call,
          ticket, document, metadata, phase

vars == <<collection, persisted, clock, inflight, ret, lastQuery, call,
          ticket, document, metadata, phase>>

kbVars == <<collection, persisted, clock, inflight, ret, lastQuery, call>>
pureVars == <<ticket, document, metadata, phase>>

----------------------------------------------------------------------------
(* Bounds *)

\* number of add calls a behaviour may start
MaxAdds == 2
\* largest limit a caller passes to a search
MaxLimitArg == 21
\* largest collection statistics are taken of
MaxStatRecords == 52

(* Program constants *)

\* min(n_results, 20) and min(max(1, limit), 20)
QueryCap == 20
\* collection.get(limit=min(50, count))
SampleCap == 50
\* n_results=20 passed by filter_jira_tickets
FilterLimit == 20

----------------------------------------------------------------------------
(* Python values *)

EmptyMap == [k \in {} |-> 0]

Str(s) == [t |-> "str", s |-> s, d |-> EmptyMap]
NoneV == [t |-> "none", s |-> <<>>, d |-> EmptyMap]
Num(s) == [t |-> "int", s |-> s, d |-> EmptyMap]
Dict(f) == [t |-> "dict", s |-> <<>>, d |-> f]

IsStr(v) == v.t = "str"
IsDict(v) == v.t = "dict"

\* bool(v)
Truthy(v) ==
    CASE v.t = "str" -> v.s # <<>>
      [] v.t = "none" -> FALSE
      [] v.t = "int" -> v.s # <<"0">>
      [] v.t = "dict" -> DOMAIN v.d # {}

\* a or b
PyOr(a, b) == IF Truthy(a) THEN a ELSE b

\* d.get(k, default)
Get(f, k, default) == IF k \in DOMAIN f THEN f[k] ELSE default

\* the order in which the items of an object are written out
SubKeyOrder == <<"name", "displayName", "key", "id">>

RECURSIVE ReprItems(_, _)
ReprItems(f, i) ==
    IF i > Len(SubKeyOrder) THEN <<>>
    ELSE IF SubKeyOrder[i] \in DOMAIN f
         THEN <<SubKeyOrder[i], ":">> \o f[SubKeyOrder[i]].s \o ReprItems(f, i + 1)
         ELSE ReprItems(f, i + 1)

\* str(v), also what an f-string writes for {v}
PyStr(v) ==
    CASE v.t = "str" -> v.s
      [] v.t = "none" -> <<"None">>
      [] v.t = "int" -> v.s
      [] v.t = "dict" -> <<"{">> \o ReprItems(v.d, 1) \o <<"}">>

IsSpace(c) == c \in {" ", "\n"}

RECURSIVE LStrip(_)
LStrip(s) == IF s # <<>> /\ IsSpace(Head(s)) THEN LStrip(Tail(s)) ELSE s

RECURSIVE RStrip(_)
RStrip(s) ==
    IF s # <<>> /\ IsSpace(s[Len(s)]) THEN RStrip(SubSeq(s, 1, Len(s) - 1)) ELSE s

\* s.strip()
Strip(s) == LStrip(RStrip(s))

\* s.split('\n')
RECURSIVE Split(_)
Split(s) ==
    IF \A i \in 1..Len(s) : s[i] # "\n" THEN <<s>>
    ELSE LET i == CHOOSE j \in 1..Len(s) :
                     s[j] = "\n" /\ \A k \in 1..(j - 1) : s[k] # "\n"
         IN <<SubSeq(s, 1, i - 1)>> \o Split(SubSeq(s, i + 1, Len(s)))

IsPrefix(p, s) == Len(p) <= Len(s) /\ SubSeq(s, 1, Len(p)) = p

\* s.replace(old, '')
RECURSIVE Remove(_, _)
Remove(s, old) ==
    IF s = <<>> THEN <<>>
    ELSE IF IsPrefix(old, s) THEN Remove(SubSeq(s, Len(old) + 1, Len(s)), old)
    ELSE <<Head(s)>> \o Remove(Tail(s), old)

----------------------------------------------------------------------------
(* JIRAKnowledgeBase._create_searchable_document *)

Labels == <<"Ticket:", "Type:", "Priority:", "Status:", "Summary:", "Description:">>

\* ticket_data.get(f, {}).get('name', '') if isinstance(ticket_data.get(f), dict)
\*     else ticket_data.get(alias, '')
DocField(t, f, alias) ==
    IF f \in DOMAIN t /\ IsDict(t[f])
    THEN Get(t[f].d, "name", Str(<<>>))
    ELSE Get(t, alias, Str(<<>>))

\* a template line that is left out when its value is empty
DocLineOmitEmpty(i, v) == IF PyStr(v) = <<>> THEN <<>> ELSE <<Labels[i], " ">> \o PyStr(v)

\* one line of the template: "Label: {value}"
DocLine(i, v) == <<Labels[i], " ">> \o PyStr(v)

CreateSearchableDocument(t) ==
    LET key == Get(t, "key", Str(<<>>))
        summary == Get(t, "summary", Str(<<>>))
        description == Get(t, "description", Str(<<>>))
        issue_type == DocField(t, "issuetype", "issue_type")
        status == DocField(t, "status", "status")
        priority == DocField(t, "priority", "priority")
    IN Strip(DocLine(1, key) \o <<"\n">> \o DocLine(2, issue_type) \o <<"\n">>
             \o DocLine(3, priority) \o <<"\n">> \o DocLine(4, status) \o <<"\n">>
             \o DocLine(5, summary) \o <<"\n">> \o DocLine(6, description))

----------------------------------------------------------------------------
(* JIRAKnowledgeBase._extract_metadata *)

SafeExtract(data, key, subkey) ==
    LET value == Get(data, key, Dict(EmptyMap))
    IN IF IsDict(value) THEN Get(value.d, subkey, Str(<<>>))
       ELSE IF IsStr(value) THEN value
       ELSE IF Truthy(value) THEN Str(PyStr(value)) ELSE Str(<<>>)

\* decimal digits of a small number
Digits == <<"0", "1", "2", "3", "4", "5", "6", "7", "8", "9">>
NumTok(n) == Digits[n + 1]

\* datetime.now().isoformat() read at time now
IsoFormat(now) == Str(<<"ts", NumTok(now)>>)

MetaKeys == {"key", "issue_type", "priority", "status", "assignee", "reporter",
             "project", "created", "indexed_at"}

RawMetadata(t, now) ==
    [k \in MetaKeys |->
        CASE k = "key" -> Get(t, "key", Str(<<>>))
          [] k = "issue_type" ->
                PyOr(SafeExtract(t, "issuetype", "name"), Get(t, "issue_type", Str(<<>>)))
          [] k = "priority" ->
                PyOr(SafeExtract(t, "priority", "name"), Get(t, "priority", Str(<<>>)))
          [] k = "status" ->
                PyOr(SafeExtract(t, "status", "name"), Get(t, "status", Str(<<>>)))
          [] k = "assignee" ->
                PyOr(SafeExtract(t, "assignee", "displayName"), Get(t, "assignee", Str(<<>>)))
          [] k = "reporter" ->
                PyOr(SafeExtract(t, "reporter", "displayName"), Get(t, "reporter", Str(<<>>)))
          [] k = "project" ->
                PyOr(SafeExtract(t, "project", "key"), Get(t, "project", Str(<<>>)))
          [] k = "created" -> Get(t, "created", Str(<<>>))
          [] k = "indexed_at" -> IsoFormat(now)]

\* the metadata returned as built, empty values included
DropEmptyKeepsAll(m) == m

\* {k: v for k, v in metadata.items() if v}
DropEmpty(m) == [k \in {j \in DOMAIN m : Truthy(m[j])} |-> m[k]]

ExtractMetadata(t, now) == DropEmpty(RawMetadata(t, now))

----------------------------------------------------------------------------
(* The vector-store collection, as agent.py uses it *)

Record(id, doc, meta) == [id |-> id, document |-> doc, metadata |-> meta]

\* a write that replaces the records already stored under the same id
CollectionUpsert(coll, rec) ==
    Append(SelectSeq(coll, LAMBDA r : r.id # rec.id), rec)

\* collection.add(documents=[document], metadatas=[metadata], ids=[ticket_id])
CollectionAdd(coll, rec) == Append(coll, rec)

\* a record satisfies where when it carries every pair of where
Matches(rec, where) ==
    \A k \in DOMAIN where :
        k \in DOMAIN rec.metadata /\ rec.metadata[k] = Str(where[k])

Matching(coll, where) == {i \in 1..Len(coll) : Matches(coll[i], where)}

Min(a, b) == IF a < b THEN a ELSE b
Max(a, b) == IF a > b THEN a ELSE b

RECURSIVE Ascending(_)
Ascending(S) ==
    IF S = {} THEN <<>>
    ELSE LET m == CHOOSE x \in S : \A y \in S : x <= y
         IN <<m>> \o Ascending(S \ {m})

\* collection.query(query_texts, n_results, where): the rows the store may
\* answer with, as positions in the collection; which of the matching
\* records are nearest to the query is the embedding model's choice
QueryHits(coll, n, where) ==
    LET M == Matching(coll, where)
        k == Max(0, Min(n, Cardinality(M)))
    IN {Ascending(S) : S \in {T \in SUBSET M : Cardinality(T) = k}}

\* collection.get(limit=k)
CollectionGet(coll, k) == SubSeq(coll, 1, Min(k, Len(coll)))

NoQuery == [issued |-> FALSE, failed |-> FALSE, query |-> <<>>, n_results |-> 0,
            where |-> EmptyMap, hits |-> <<>>]

Query(q, n, where, failed, hits) ==
    [issued |-> TRUE, failed |-> failed, query |-> q, n_results |-> n,
     where |-> where, hits |-> hits]

----------------------------------------------------------------------------
(* JIRAKnowledgeBase.add_ticket, search_tickets, get_stats *)

\* str(uuid.uuid4())[:8], the n-th draw; draws are taken to be distinct
Uuid4(n) == <<"uuid", NumTok(n)>>

\* ticket_data.get('key', f"TICKET-{str(uuid.uuid4())[:8]}")
TicketId(t, n) == Get(t, "key", Str(<<"TICKET-">> \o Uuid4(n)))

\* the record add_ticket hands to the store
Prepared(t, now) ==
    Record(TicketId(t, now), CreateSearchableDocument(t), ExtractMetadata(t, now))

\* n_results=min(n_results, 20)
StoreLimit(n_results) == Min(n_results, QueryCap)

\* the filters argument: None, or a dict
NoFilters == [given |-> FALSE, map |-> EmptyMap]
Filters(f) == [given |-> TRUE, map |-> f]

\* filters or {}
WhereOf(filters) == IF filters.given /\ filters.map # EmptyMap THEN filters.map ELSE EmptyMap

\* how a call ends: it returns a value, or an exception leaves it
Returned(v) == [raised |-> FALSE, value |-> v]
Raised == [raised |-> TRUE, value |-> <<>>]

\* search_tickets with an except clause that re-raises, as add_ticket's does
SearchTicketsReraises(coll, q) ==
    IF q.failed THEN Raised
    ELSE Returned([i \in 1..Len(q.hits) |->
            [ticket_id |-> coll[q.hits[i]].id,
             content |-> coll[q.hits[i]].document,
             metadata |-> coll[q.hits[i]].metadata]])

\* search_tickets: formatted_results, or [] when the query raised
SearchTickets(coll, q) ==
    IF q.failed THEN Returned(<<>>)
    ELSE Returned([i \in 1..Len(q.hits) |->
            [ticket_id |-> coll[q.hits[i]].id,
             content |-> coll[q.hits[i]].document,
             metadata |-> coll[q.hits[i]].metadata]])

Unknown == Str(<<"Unknown">>)

NoStats == [keys |-> {}, total_tickets |-> 0, sample_size |-> 0,
            issue_types |-> EmptyMap, priorities |-> EmptyMap,
            statuses |-> EmptyMap]

ErrorStats == [NoStats EXCEPT !.keys = {"total_tickets", "error"}]

\* the histogram without the 'Unknown' default: records lacking the category
\* are passed over
HistogramSkipsMissing(sample, cat) ==
    LET has == {i \in 1..Len(sample) : cat \in DOMAIN sample[i].metadata}
    IN [v \in {sample[i].metadata[cat] : i \in has} |->
            Cardinality({i \in has : sample[i].metadata[cat] = v})]

\* the dict built by the loop over sample['metadatas'] for one category
Histogram(sample, cat) ==
    LET val(i) == Get(sample[i].metadata, cat, Unknown)
    IN [v \in {val(i) : i \in 1..Len(sample)} |->
            Cardinality({i \in 1..Len(sample) : val(i) = v})]

\* a dict used as a dict key raises TypeError
Unhashable(sample) ==
    \E i \in 1..Len(sample) : \E cat \in {"issue_type", "priority", "status"} :
        IsDict(Get(sample[i].metadata, cat, Unknown))

\* get_stats without the test "if sample['metadatas']"
GetStatsAlwaysHistograms(coll, failed) ==
    IF failed THEN Returned(ErrorStats)
    ELSE LET count == Len(coll)
             sample == CollectionGet(coll, Min(SampleCap, count))
         IN IF Unhashable(sample) THEN Returned(ErrorStats)
            ELSE Returned(
                 [keys |-> {"total_tickets", "sample_size", "issue_types",
                            "priorities", "statuses"},
                  total_tickets |-> count,
                  sample_size |-> Len(sample),
                  issue_types |-> Histogram(sample, "issue_type"),
                  priorities |-> Histogram(sample, "priority"),
                  statuses |-> Histogram(sample, "status")])

\* get_stats; failed says that count() or get() raised
GetStats(coll, failed) ==
    IF failed THEN Returned(ErrorStats)
    ELSE LET count == Len(coll)
             sample == CollectionGet(coll, Min(SampleCap, count))
         IN IF sample = <<>>
            THEN Returned([NoStats EXCEPT !.keys = {"total_tickets"},
                                          !.total_tickets = count])
            ELSE IF Unhashable(sample) THEN Returned(ErrorStats)
            ELSE Returned(
                 [keys |-> {"total_tickets", "sample_size", "issue_types",
                            "priorities", "statuses"},
                  total_tickets |-> count,
                  sample_size |-> Len(sample),
                  issue_types |-> Histogram(sample, "issue_type"),
                  priorities |-> Histogram(sample, "priority"),
                  statuses |-> Histogram(sample, "status")])

----------------------------------------------------------------------------
(* Results of the tool functions and of direct calls *)

NoRet == [op |-> "none", status |-> "none", msg |-> "", ticket_id |-> NoneV,
          total_found |-> 0, tickets |-> <<>>, results |-> <<>>,
          stats |-> NoStats]

NoCall == [op |-> "none", limit |-> 0, criteria |-> EmptyMap, store_failed |-> FALSE]

Call(op, limit, criteria, failed) ==
    [op |-> op, limit |-> limit, criteria |-> criteria, store_failed |-> failed]

ErrorRet(op, msg) == [NoRet EXCEPT !.op = op, !.status = "error", !.msg = msg]

\* ticket_json is malformed text, JSON that is not an object, or an object;
\* json.loads raises JSONDecodeError on the first, and .get raises
\* AttributeError on the value of the second
Malformed == [syntax |-> "malformed", obj |-> EmptyMap]
NotAnObject == [syntax |-> "array", obj |-> EmptyMap]
Json(t) == [syntax |-> "object", obj |-> t]

\* not ticket_data.get('key') and not ticket_data.get('summary')
MissingIdentity(t) ==
    /\ ~Truthy(Get(t, "key", NoneV))
    /\ ~Truthy(Get(t, "summary", NoneV))

\* result['content'].split('\n')[0].replace('Ticket: ', '')
FormatSummary(content) == Remove(Split(content)[1], <<"Ticket:", " ">>)

TicketInfo(result) ==
    [ticket_id |-> result.ticket_id,
     summary |-> FormatSummary(result.content),
     type |-> Get(result.metadata, "issue_type", Unknown),
     priority |-> Get(result.metadata, "priority", Unknown),
     status |-> Get(result.metadata, "status", Unknown),
     assignee |-> Get(result.metadata, "assignee", Str(<<"Unassigned">>))]

\* limit = min(max(1, limit), 20)
ClampLimit(limit) == Min(Max(1, limit), QueryCap)

\* what a direct call of a knowledge-base method leaves with its caller
DirectResult(op, out) ==
    IF out.raised THEN [NoRet EXCEPT !.op = op, !.status = "raised"]
    ELSE IF op = "kb_search"
         THEN [NoRet EXCEPT !.op = op, !.status = "returned", !.results = out.value]
         ELSE [NoRet EXCEPT !.op = op, !.status = "returned", !.stats = out.value]

\* what search_jira_tickets returns, given how search_tickets ended
SearchResult(out) ==
    IF out.raised THEN ErrorRet("search", "Search failed")
    ELSE IF out.value = <<>>
    THEN [NoRet EXCEPT !.op = "search", !.status = "success",
                       !.msg = "No tickets found matching your query."]
    ELSE [NoRet EXCEPT !.op = "search", !.status = "success", !.msg = "Found",
                       !.total_found = Len(out.value),
                       !.tickets = [i \in 1..Len(out.value) |-> TicketInfo(out.value[i])]]

\* what get_jira_statistics returns, given how get_stats ended
StatisticsResult(out) ==
    IF out.raised THEN ErrorRet("stats", "Failed to get statistics")
    ELSE IF "error" \in out.value.keys
    THEN ErrorRet("stats", "stats error")
    ELSE [NoRet EXCEPT !.op = "stats", !.status = "success", !.stats = out.value]

FilterKeys == {"issue_type", "priority", "status", "assignee"}

\* the filters dict built without the status argument
BuildFiltersNoStatus(criteria) ==
    [k \in {j \in FilterKeys \ {"status"} : criteria[j] # <<>>} |-> criteria[k]]

\* the filters dict built from the four arguments
BuildFilters(criteria) == [k \in {j \in FilterKeys : criteria[j] # <<>>} |-> criteria[k]]

\* if not filters, with the check left out
NoCriteriaUnchecked(filters) == FALSE

\* if not filters
NoCriteria(filters) == filters = EmptyMap

\* what filter_jira_tickets returns, given how search_tickets ended
FilterResult(out) ==
    IF out.raised THEN ErrorRet("filter", "Filter operation failed")
    ELSE IF out.value = <<>>
    THEN [NoRet EXCEPT !.op = "filter", !.status = "success",
                       !.msg = "No tickets found matching filters"]
    ELSE [NoRet EXCEPT !.op = "filter", !.status = "success", !.msg = "Found",
                       !.total_found = Len(out.value)]

----------------------------------------------------------------------------
(* Inputs *)

Callers == {1, 2}

TKeySummary ==
    ("key" :> Str(<<"T-1">>)) @@ ("summary" :> Str(<<"X">>))
        @@ ("issue_type" :> Str(<<"Bug">>))

TSameKey ==
    ("key" :> Str(<<"T-1">>)) @@ ("summary" :> Str(<<"Y">>))
        @@ ("priority" :> Dict("name" :> Str(<<"High">>)))
        @@ ("status" :> Str(<<"Open">>))
        @@ ("assignee" :> Dict("displayName" :> Str(<<"Ann">>)))

TSummaryOnly == ("summary" :> Str(<<"X">>)) @@ ("issue_type" :> Str(<<"Story">>))

TEmptyKey == ("key" :> Str(<<>>)) @@ ("summary" :> Str(<<"X">>))

TNoName == ("key" :> Str(<<"T-2">>)) @@ ("priority" :> Dict("id" :> Str(<<"3">>)))

TNeither == ("description" :> Str(<<"D">>))

AddInputs == {Malformed, NotAnObject, Json(TNeither), Json(TKeySummary), Json(TSameKey),
              Json(TSummaryOnly), Json(TEmptyKey), Json(TNoName)}

\* limits below, at and above the range [1, 20]
Limits == {-1, 0, 1, QueryCap, MaxLimitArg}

Queries == {<<"X">>}

Criteria(it, pr, st, as) ==
    [issue_type |-> it, priority |-> pr, status |-> st, assignee |-> as]

FilterInputs == {Criteria(<<>>, <<>>, <<>>, <<>>),
                 Criteria(<<"Bug">>, <<>>, <<"Open">>, <<>>),
                 Criteria(<<>>, <<"High">>, <<"Open">>, <<>>),
                 Criteria(<<>>, <<>>, <<>>, <<"Ann">>)}

DirectFilters == {NoFilters}

----------------------------------------------------------------------------
(* State *)

Idle == [busy |-> FALSE, rec |-> Record(NoneV, <<>>, EmptyMap)]
Busy(rec) == [busy |-> TRUE, rec |-> rec]

\* the knowledge base constructed over storage that held no collection
KBInit ==
    /\ collection = <<>>
    /\ persisted = TRUE
    /\ clock = 0
    /\ inflight = [c \in Callers |-> Idle]
    /\ ret = NoRet
    /\ lastQuery = NoQuery
    /\ call = NoCall

PureIdle ==
    /\ ticket = EmptyMap
    /\ document = <<>>
    /\ metadata = EmptyMap
    /\ phase = "none"

\* before JIRAKnowledgeBase() has run: the storage holds no collection
NotStarted ==
    /\ collection = <<>>
    /\ persisted = FALSE
    /\ clock = 0
    /\ inflight = [c \in Callers |-> Idle]
    /\ ret = NoRet
    /\ lastQuery = NoQuery
    /\ call = NoCall

Init == NotStarted /\ PureIdle

----------------------------------------------------------------------------
(* JIRAKnowledgeBase.__init__ *)

\* an initialisation that always creates the collection anew
OpenCollectionRecreates(held, coll) == <<>>

\* get_collection(name) when the storage holds the collection, else
\* (ValueError) create_collection(name): the records the handle gives
OpenCollection(held, coll) == IF held THEN coll ELSE <<>>

\* JIRAKnowledgeBase() runs, for the first time or again over the same
\* storage
Initialise ==
    /\ collection' = OpenCollection(persisted, collection)
    /\ persisted' = TRUE
    /\ ret' = [NoRet EXCEPT !.op = "init", !.status = "returned",
                            !.msg = IF persisted
                                    THEN "Connected to existing JIRA tickets collection"
                                    ELSE "Created new JIRA tickets collection"]
    /\ call' = Call("init", 0, EmptyMap, FALSE)
    /\ lastQuery' = NoQuery
    /\ UNCHANGED <<clock, inflight>>
    /\ UNCHANGED pureVars

----------------------------------------------------------------------------
(* add_jira_ticket *)

\* the call returns before anything is written: malformed JSON, JSON that
\* is not an object, or a ticket with neither key nor summary
AddTicketRejected(c, input) ==
    /\ ~inflight[c].busy
    /\ \/ /\ input.syntax = "malformed"
          /\ ret' = ErrorRet("add", "Invalid JSON format provided")
       \/ /\ input.syntax = "array"
          /\ ret' = ErrorRet("add", "Failed to add ticket: no attribute get")
       \/ /\ input.syntax = "object"
          /\ MissingIdentity(input.obj)
          /\ ret' = ErrorRet("add", "Ticket must have either 'key' or 'summary' field")
    /\ call' = Call("add", 0, EmptyMap, FALSE)
    /\ lastQuery' = NoQuery
    /\ UNCHANGED <<collection, clock, inflight>>
    /\ persisted /\ UNCHANGED persisted
    /\ UNCHANGED pureVars

\* the call passes validation; add_ticket builds id, document and metadata
\* and is about to call collection.add
AddTicketPrepared(c, input) ==
    /\ ~inflight[c].busy
    /\ clock < MaxAdds
    /\ input.syntax = "object"
    /\ ~MissingIdentity(input.obj)
    /\ clock' = clock + 1
    /\ inflight' = [inflight EXCEPT ![c] = Busy(Prepared(input.obj, clock + 1))]
    /\ UNCHANGED <<collection, ret, lastQuery, call>>
    /\ persisted /\ UNCHANGED persisted
    /\ UNCHANGED pureVars

\* collection.add returns; the tool reports success
AddTicketStored(c) ==
    /\ inflight[c].busy
    /\ collection' = CollectionAdd(collection, inflight[c].rec)
    /\ ret' = [NoRet EXCEPT !.op = "add", !.status = "success",
                            !.msg = "Successfully added ticket",
                            !.ticket_id = inflight[c].rec.id]
    /\ call' = Call("add", 0, EmptyMap, FALSE)
    /\ lastQuery' = NoQuery
    /\ inflight' = [inflight EXCEPT ![c] = Idle]
    /\ UNCHANGED clock
    /\ persisted /\ UNCHANGED persisted
    /\ UNCHANGED pureVars

\* a failing write that leaves its record behind all the same
AddTicketStoreFailsAfterWrite(c) ==
    /\ inflight[c].busy
    /\ collection' = CollectionAdd(collection, inflight[c].rec)
    /\ ret' = ErrorRet("add", "Failed to add ticket: store error")
    /\ call' = Call("add", 0, EmptyMap, TRUE)
    /\ lastQuery' = NoQuery
    /\ inflight' = [inflight EXCEPT ![c] = Idle]
    /\ UNCHANGED clock
    /\ persisted /\ UNCHANGED persisted
    /\ UNCHANGED pureVars

\* collection.add raises; add_ticket re-raises and the tool reports the error
AddTicketStoreFails(c) ==
    /\ inflight[c].busy
    /\ ret' = ErrorRet("add", "Failed to add ticket: store error")
    /\ call' = Call("add", 0, EmptyMap, TRUE)
    /\ lastQuery' = NoQuery
    /\ inflight' = [inflight EXCEPT ![c] = Idle]
    /\ UNCHANGED <<collection, clock>>
    /\ persisted /\ UNCHANGED persisted
    /\ UNCHANGED pureVars

----------------------------------------------------------------------------
(* search_tickets and get_stats called directly *)

KBSearchTickets(query, n_results, filters) ==
    \E failed \in BOOLEAN :
    \E hits \in QueryHits(collection, StoreLimit(n_results), WhereOf(filters)) :
        LET q == Query(query, StoreLimit(n_results), WhereOf(filters), failed,
                       IF failed THEN <<>> ELSE hits)
        IN /\ lastQuery' = q
           /\ ret' = DirectResult("kb_search", SearchTickets(collection, q))
           /\ call' = Call("kb_search", n_results, WhereOf(filters), failed)
           /\ UNCHANGED <<collection, clock, inflight>>
           /\ persisted /\ UNCHANGED persisted
           /\ UNCHANGED pureVars

KBGetStats ==
    \E failed \in BOOLEAN :
        /\ ret' = DirectResult("kb_stats", GetStats(collection, failed))
        /\ call' = Call("kb_stats", 0, EmptyMap, failed)
        /\ lastQuery' = NoQuery
        /\ UNCHANGED <<collection, clock, inflight>>
        /\ persisted /\ UNCHANGED persisted
        /\ UNCHANGED pureVars

----------------------------------------------------------------------------
(* search_jira_tickets, get_jira_statistics, filter_jira_tickets *)

SearchJiraTickets(query, limit) ==
    \E failed \in BOOLEAN :
    \E hits \in QueryHits(collection, StoreLimit(ClampLimit(limit)), EmptyMap) :
        LET q == Query(query, StoreLimit(ClampLimit(limit)), EmptyMap, failed,
                       IF failed THEN <<>> ELSE hits)
        IN /\ lastQuery' = q
           /\ ret' = SearchResult(SearchTickets(collection, q))
           /\ call' = Call("search", limit, EmptyMap, failed)
           /\ UNCHANGED <<collection, clock, inflight>>
           /\ persisted /\ UNCHANGED persisted
           /\ UNCHANGED pureVars

GetJiraStatistics ==
    \E failed \in BOOLEAN :
        /\ ret' = StatisticsResult(GetStats(collection, failed))
        /\ call' = Call("stats", 0, EmptyMap, failed)
        /\ lastQuery' = NoQuery
        /\ UNCHANGED <<collection, clock, inflight>>
        /\ persisted /\ UNCHANGED persisted
        /\ UNCHANGED pureVars

\* if not filters: the validation error
FilterRejected(criteria) ==
    /\ NoCriteria(BuildFilters(criteria))
    /\ ret' = ErrorRet("filter", "At least one filter criteria must be provided")
    /\ call' = Call("filter", 0, criteria, FALSE)
    /\ lastQuery' = NoQuery
    /\ UNCHANGED <<collection, clock, inflight>>
    /\ persisted /\ UNCHANGED persisted
    /\ UNCHANGED pureVars

\* search_tickets("", n_results=20, filters=filters)
FilterQueried(criteria) ==
    /\ ~NoCriteria(BuildFilters(criteria))
    /\ \E failed \in BOOLEAN :
       \E hits \in QueryHits(collection, StoreLimit(FilterLimit),
                             WhereOf(Filters(BuildFilters(criteria)))) :
           LET q == Query(<<>>, StoreLimit(FilterLimit),
                          WhereOf(Filters(BuildFilters(criteria))), failed,
                          IF failed THEN <<>> ELSE hits)
           IN /\ lastQuery' = q
              /\ ret' = FilterResult(SearchTickets(collection, q))
              /\ call' = Call("filter", 0, criteria, failed)
    /\ UNCHANGED <<collection, clock, inflight>>
    /\ persisted /\ UNCHANGED persisted
    /\ UNCHANGED pureVars

FilterJiraTickets(criteria) == FilterRejected(criteria) \/ FilterQueried(criteria)

----------------------------------------------------------------------------
Next ==
    \/ Initialise
    \/ \E c \in Callers, input \in AddInputs : AddTicketRejected(c, input)
    \/ \E c \in Callers, input \in AddInputs : AddTicketPrepared(c, input)
    \/ \E c \in Callers : AddTicketStored(c)
    \/ \E c \in Callers : AddTicketStoreFails(c)
    \/ \E q \in Queries, n \in Limits, f \in DirectFilters : KBSearchTickets(q, n, f)
    \/ KBGetStats
    \/ \E q \in Queries, n \in Limits : SearchJiraTickets(q, n)
    \/ GetJiraStatistics
    \/ \E cr \in FilterInputs : FilterJiraTickets(cr)

Spec == Init /\ [][Next]_vars

----------------------------------------------------------------------------
(* The document builder and the metadata extractor on their own: every     *)
(* ticket of BuilderTickets is put through both.                           *)

Absent == [t |-> "absent", s |-> <<>>, d |-> EmptyMap]

\* the ticket that has exactly the fields of choice that are not Absent
MkTicket(choice) == [k \in {j \in DOMAIN choice : choice[j] # Absent} |-> choice[k]]

KeyShapes == {Absent, Str(<<>>), Str(<<"T-1">>), NoneV}
SummaryShapes == {Absent, Str(<<"X">>), Str(<<"X", "\n", "Y">>)}
DescriptionShapes == {Absent, Str(<<>>), Str(<<"D", "\n", "E">>)}
IssueTypeShapes == {Absent, Dict("name" :> Str(<<"Bug">>)), Dict("id" :> Str(<<"3">>))}
AliasShapes == {Absent, Str(<<"Task">>)}
PriorityShapes == {Absent, Str(<<"High">>), Dict("name" :> Str(<<"High">>)),
                   Dict("id" :> Str(<<"3">>)), Dict(EmptyMap), NoneV,
                   Num(<<"0">>), Num(<<"3">>)}
StatusShapes == {Absent, Str(<<"Open">>), Dict("name" :> Str(<<"Open">>))}
AssigneeShapes == {Absent, Str(<<"Ann">>), Dict("displayName" :> Str(<<"Ann">>)),
                   Dict("name" :> Str(<<"ann">>))}

BuilderTickets ==
    {MkTicket([key |-> k, summary |-> s, description |-> d, issuetype |-> it,
               issue_type |-> al, priority |-> p, status |-> st, assignee |-> a]) :
        k \in KeyShapes, s \in SummaryShapes, d \in DescriptionShapes,
        it \in IssueTypeShapes, al \in AliasShapes, p \in PriorityShapes,
        st \in StatusShapes, a \in AssigneeShapes}

PureInit ==
    /\ ticket \in BuilderTickets
    /\ document = <<>>
    /\ metadata = EmptyMap
    /\ phase = "ticket"

BuildDocument ==
    /\ phase = "ticket"
    /\ document' = CreateSearchableDocument(ticket)
    /\ phase' = "document"
    /\ UNCHANGED <<ticket, metadata>>
    /\ UNCHANGED kbVars

BuildMetadata ==
    /\ phase = "document"
    /\ metadata' = ExtractMetadata(ticket, 1)
    /\ phase' = "metadata"
    /\ UNCHANGED <<ticket, document>>
    /\ UNCHANGED kbVars

\* knowledge_base.add_ticket(ticket) called directly, as load_sample_data
\* does: the record is written, or collection.add raises and add_ticket
\* re-raises
KBAddTicket ==
    /\ phase = "metadata"
    /\ \/ /\ collection' = CollectionAdd(collection,
                               Record(TicketId(ticket, 1), document, metadata))
          /\ ret' = [NoRet EXCEPT !.op = "kb_add", !.status = "returned",
                                  !.ticket_id = TicketId(ticket, 1)]
          /\ call' = Call("kb_add", 0, EmptyMap, FALSE)
          /\ phase' = "stored"
       \/ /\ ret' = [NoRet EXCEPT !.op = "kb_add", !.status = "raised"]
          /\ call' = Call("kb_add", 0, EmptyMap, TRUE)
          /\ phase' = "raised"
          /\ UNCHANGED collection
    /\ UNCHANGED <<persisted, clock, inflight, lastQuery>>
    /\ UNCHANGED <<ticket, document, metadata>>

BuilderInit == KBInit /\ PureInit

BuilderNext == BuildDocument \/ BuildMetadata \/ KBAddTicket

BuilderSpec == BuilderInit /\ [][BuilderNext]_vars

----------------------------------------------------------------------------
(* Statistics on their own: get_stats and get_jira_statistics over         *)
(* collections of up to MaxStatRecords records.                            *)

StatTickets == {TKeySummary, TSameKey, TSummaryOnly, TNoName}

\* one or two tickets, added over and over in turn
StatPatterns == {<<t>> : t \in StatTickets} \cup (StatTickets \X StatTickets)

\* the collection after n adds that cycle through pattern
Repeated(pattern, n) ==
    [i \in 1..n |-> Prepared(pattern[((i - 1) % Len(pattern)) + 1], 1)]

StatsInit ==
    /\ \E pattern \in StatPatterns, n \in 0..MaxStatRecords :
          collection = Repeated(pattern, n)
    /\ persisted = TRUE
    /\ clock = 0
    /\ inflight = [c \in Callers |-> Idle]
    /\ ret = NoRet
    /\ lastQuery = NoQuery
    /\ call = NoCall
    /\ PureIdle

StatsNext == KBGetStats \/ GetJiraStatistics

StatsSpec == StatsInit /\ [][StatsNext]_vars

----------------------------------------------------------------------------
(* Properties *)

\* the tickets of AddInputs that add_jira_ticket accepts
AcceptedTickets ==
    {input.obj : input \in {j \in AddInputs : j.syntax = "object" /\ ~MissingIdentity(j.obj)}}

\* the records an accepted add has built: stored ones and ones being written
BuiltRecords ==
    {collection[i] : i \in 1..Len(collection)}
        \cup {inflight[c].rec : c \in {b \in Callers : inflight[b].busy}}

\* C1 (as claimed): a search-tickets result that returns the record stored
\* for a ticket with key K and summary S reports ticket_id K and a formatted
\* summary equal to S.
C1_RoundTripSummary ==
    (ret.op = "search" /\ ret.status = "success") =>
        \A i \in 1..Len(ret.tickets) : \A t \in AcceptedTickets :
            ( /\ "key" \in DOMAIN t /\ "summary" \in DOMAIN t
              /\ collection[lastQuery.hits[i]].id = t["key"]
              /\ collection[lastQuery.hits[i]].document = CreateSearchableDocument(t) )
            => /\ ret.tickets[i].ticket_id = t["key"]
               /\ ret.tickets[i].summary = t["summary"].s

\* a limit clamped to [1, 20]
Clamped(n) == IF n > 20 THEN 20 ELSE IF n < 1 THEN 1 ELSE n

\* C2 (as claimed): whatever limit N the caller gives, through the tool or
\* to the store's search directly, the vector store is asked for the number
\* of results N clamped to [1, 20].
C2_LimitClamped ==
    (call.op \in {"search", "kb_search"} /\ lastQuery.issued) =>
        lastQuery.n_results = Clamped(call.limit)

\* the step in which caller c's add is written and reported as a success
AddSucceeds(c) == inflight[c].busy /\ ~inflight'[c].busy /\ ret'.status = "success"

Count(coll, id) == Cardinality({i \in 1..Len(coll) : coll[i].id = id})

\* C3: every successful add leaves all earlier records as they were and adds
\* one record, also when a record with the same id is already stored: the
\* number of records under that id grows by one, nothing is overwritten.
C3_SameKeyKeepsBoth ==
    [][\A c \in Callers : AddSucceeds(c) =>
          /\ Len(collection') = Len(collection) + 1
          /\ SubSeq(collection', 1, Len(collection)) = collection
          /\ collection'[Len(collection')] = inflight[c].rec
          /\ Count(collection', inflight[c].rec.id)
                = Count(collection, inflight[c].rec.id) + 1]_vars

\* two records under one key with different documents, the one stored first
\* being the one whose add started last: the two adds overlapped
C3_Witness ==
    /\ Len(collection) = 2
    /\ collection[1].id = collection[2].id
    /\ collection[1].document # collection[2].document
    /\ collection[1].metadata["indexed_at"] = IsoFormat(2)
    /\ collection[2].metadata["indexed_at"] = IsoFormat(1)

\* C4 (as claimed): every record built for an accepted ticket has a
\* non-empty string id, and no two records share a synthesized id.
C4_NonEmptyId ==
    /\ \A r \in BuiltRecords : IsStr(r.id) /\ r.id.s # <<>>
    /\ \A i, j \in 1..Len(collection) :
          (i < j /\ IsPrefix(<<"TICKET-">>, collection[i].id.s))
              => collection[i].id # collection[j].id

----------------------------------------------------------------------------
(* Properties of the document builder and the metadata extractor *)

\* the document has six lines and line i starts with label i
SixLabelledLines(doc) ==
    /\ Len(Split(doc)) = 6
    /\ \A i \in 1..6 : Split(doc)[i] # <<>> /\ Split(doc)[i][1] = Labels[i]

\* the text after the label of line i
LineValue(doc, i) == Strip(Tail(Split(doc)[i]))

SingleLine(t) ==
    \A f \in {"key", "summary", "description"} :
        \A i \in 1..Len(PyStr(Get(t, f, Str(<<>>)))) :
            PyStr(Get(t, f, Str(<<>>)))[i] # "\n"

EmptyValues ==
    {Str(<<>>), NoneV, Dict(EmptyMap), Num(<<"0">>),
     Str(PyStr(NoneV)), Str(PyStr(Dict(EmptyMap))), Str(PyStr(Num(<<"0">>)))}

NoEmptyValue(m) ==
    /\ "indexed_at" \in DOMAIN m
    /\ \A k \in DOMAIN m : m[k] \notin EmptyValues

\* C6: the extracted metadata has indexed_at and no key with an empty value,
\* and so has the metadata of every record in the collection.
C6_NoEmptyMetadata ==
    /\ phase \in {"metadata", "stored", "raised"} => NoEmptyValue(metadata)
    /\ \A i \in 1..Len(collection) : NoEmptyValue(collection[i].metadata)

\* a stored ticket whose key is empty and whose priority is null
C6_Witness ==
    /\ phase = "stored"
    /\ Len(collection) = 1
    /\ Get(ticket, "key", Absent) = Str(<<>>)
    /\ Get(ticket, "priority", Absent) = NoneV
    /\ DOMAIN collection[1].metadata \cap {"key", "priority"} = {}

\* each classification field is a plain string or an object
ClassificationShaped(t) ==
    \A f \in {"issuetype", "priority", "status", "assignee", "reporter", "project"} :
        f \in DOMAIN t => (IsStr(t[f]) \/ IsDict(t[f]))

\* C7 (as claimed): for a ticket whose classification fields are strings or
\* objects, every value of the extracted metadata is a string.
C7_ScalarStrings ==
    (phase = "metadata" /\ ClassificationShaped(ticket)) =>
        \A k \in DOMAIN metadata : IsStr(metadata[k])

----------------------------------------------------------------------------
(* Properties of error handling *)

\* C8 (as claimed): when the store call under a tool operation fails, the
\* tool returns the error-tagged result.
C8_StoreFailureIsError ==
    (call.op \in {"add", "search", "stats", "filter"} /\ call.store_failed) =>
        ret.status = "error"

\* C9: search_tickets and get_stats never raise: when the store fails,
\* search returns the empty sequence and stats returns total_tickets 0 with
\* an error; a read leaves the collection as it was.
C9_ReadsNeverRaise ==
    /\ [](call.op \in {"kb_search", "kb_stats"} => ret.status = "returned")
    /\ []((call.op = "kb_search" /\ call.store_failed) => ret.results = <<>>)
    /\ []((call.op = "kb_stats" /\ call.store_failed) =>
             /\ ret.stats.keys = {"total_tickets", "error"}
             /\ ret.stats.total_tickets = 0)
    /\ [][call'.op \in {"kb_search", "kb_stats"} => collection' = collection]_vars

\* a failed direct search of a collection that holds a record
C9_Witness ==
    /\ call.op = "kb_search"
    /\ call.store_failed
    /\ Len(collection) > 0
    /\ ret.status = "returned"

AllEmpty(criteria) == \A k \in FilterKeys : criteria[k] = <<>>

\* C10: filter-tickets with no criteria returns a validation error and
\* issues no store query; a query is issued only with a non-empty criterion.
C10_NoCriteriaNoQuery ==
    call.op = "filter" =>
        /\ AllEmpty(call.criteria) => (ret.status = "error" /\ ~lastQuery.issued)
        /\ lastQuery.issued => ~AllEmpty(call.criteria)

\* a filter call without criteria on a collection that holds a record
C10_Witness ==
    /\ call.op = "filter"
    /\ AllEmpty(call.criteria)
    /\ Len(collection) > 0
    /\ ret.status = "error"

----------------------------------------------------------------------------
(* Properties of statistics *)

HistogramKeys == {"issue_types", "priorities", "statuses", "sample_size"}

\* C11 (as claimed): stats on an empty collection returns total_tickets 0
\* and no histogram key, and total_tickets always equals the number of
\* records in the collection.
C11_TotalIsCount ==
    call.op = "kb_stats" =>
        /\ ret.stats.total_tickets = Len(collection)
        /\ Len(collection) = 0 => ret.stats.keys \cap HistogramKeys = {}

\* C11 (amended): stats on an empty collection returns total_tickets 0 and
\* no histogram key, and whenever stats returns no error, total_tickets
\* equals the number of records in the collection.
C11_TotalIsCountUnlessError ==
    call.op = "kb_stats" =>
        /\ "error" \notin ret.stats.keys => ret.stats.total_tickets = Len(collection)
        /\ Len(collection) = 0 =>
              /\ ret.stats.total_tickets = 0
              /\ ret.stats.keys \cap HistogramKeys = {}

\* stats of a collection that holds records, returned without error
C11_Witness ==
    /\ call.op = "kb_stats"
    /\ Len(collection) > 0
    /\ "error" \notin ret.stats.keys
    /\ ret.stats.total_tickets = Len(collection)

----------------------------------------------------------------------------
(* Properties of initialisation *)

\* C12: initialising over storage that holds the collection reconnects to
\* it, every record staying as it was; a collection is created, empty, only
\* when the storage holds none.
C12_InitReconnects ==
    [][call'.op = "init" =>
          /\ persisted => collection' = collection
          /\ ~persisted => collection' = <<>>
          /\ persisted']_vars

\* the knowledge base initialised again over a collection that holds records
C12_Witness ==
    /\ call.op = "init"
    /\ ret.msg = "Connected to existing JIRA tickets collection"
    /\ Len(collection) > 0

----------------------------------------------------------------------------
(* Properties of filtering *)

\* the records a filter call got back from the store
FilterHits == {collection[lastQuery.hits[i]] : i \in 1..Len(lastQuery.hits)}

\* C13: filter-tickets returns only tickets whose stored metadata equals the
\* criteria on every supplied field; a ticket stored without a field is
\* never returned by a filter on that field.
C13_FilterExactMatch ==
    (call.op = "filter" /\ lastQuery.issued) =>
        /\ ret.total_found = Len(lastQuery.hits)
        /\ \A r \in FilterHits : \A k \in FilterKeys :
              call.criteria[k] # <<>> =>
                  /\ k \in DOMAIN r.metadata
                  /\ r.metadata[k] = Str(call.criteria[k])

\* a filter on issue type and status that leaves out a stored ticket of
\* that issue type which has no status
C13_Witness ==
    /\ call.op = "filter"
    /\ call.criteria = Criteria(<<"Bug">>, <<>>, <<"Open">>, <<>>)
    /\ ~call.store_failed
    /\ \E i \in 1..Len(collection) :
          /\ Get(collection[i].metadata, "issue_type", Unknown) = Str(<<"Bug">>)
          /\ "status" \notin DOMAIN collection[i].metadata
    /\ ret.total_found = 0

----------------------------------------------------------------------------
(* Properties relating the document and the metadata *)

\* the text the metadata holds under key k, empty when the key is left out
MetaText(m, k) == IF k \in DOMAIN m THEN PyStr(m[k]) ELSE <<>>

\* C14 (as claimed): the Type, Priority and Status values of the document
\* equal the issue_type, priority and status values of the metadata, the
\* document value being empty exactly when the metadata leaves the key out.
C14_DocumentAgreesWithMetadata ==
    (phase = "metadata" /\ ClassificationShaped(ticket)) =>
        /\ LineValue(document, 2) = MetaText(metadata, "issue_type")
        /\ LineValue(document, 3) = MetaText(metadata, "priority")
        /\ LineValue(document, 4) = MetaText(metadata, "status")

----------------------------------------------------------------------------
(* Properties of the statistics sample *)

RECURSIVE SumOver(_, _)
SumOver(h, S) ==
    IF S = {} THEN 0
    ELSE LET v == CHOOSE x \in S : TRUE IN h[v] + SumOver(h, S \ {v})

\* the counts of histogram h add up to n
SumsTo(h, n) == SumOver(h, DOMAIN h) = n

\* the first n records that lack the metadata key cat
Lacking(n, cat) == {i \in 1..n : cat \notin DOMAIN collection[i].metadata}

\* histogram h counts each of the first n records lacking cat once under
\* "Unknown"
UnknownCounts(h, n, cat) ==
    IF Lacking(n, cat) = {} THEN Unknown \notin DOMAIN h
    ELSE Unknown \in DOMAIN h /\ h[Unknown] = Cardinality(Lacking(n, cat))

SampleAccounted(st) ==
    /\ "sample_size" \in st.keys
    /\ st.sample_size = (IF st.total_tickets < 50 THEN st.total_tickets ELSE 50)
    /\ SumsTo(st.issue_types, st.sample_size)
    /\ SumsTo(st.priorities, st.sample_size)
    /\ SumsTo(st.statuses, st.sample_size)
    /\ UnknownCounts(st.issue_types, st.sample_size, "issue_type")
    /\ UnknownCounts(st.priorities, st.sample_size, "priority")
    /\ UnknownCounts(st.statuses, st.sample_size, "status")

\* C15 (as claimed): in every statistics snapshot of a non-empty collection
\* sample_size is min(50, total_tickets), each histogram sums to
\* sample_size, and a sampled record lacking a category counts once under
\* "Unknown".
C15_SampleAccounted ==
    (call.op = "kb_stats" /\ Len(collection) > 0) => SampleAccounted(ret.stats)

\* C15 (amended): the same for every snapshot of a non-empty collection that
\* carries no error.
C15_SampleAccountedUnlessError ==
    (call.op = "kb_stats" /\ Len(collection) > 0 /\ "error" \notin ret.stats.keys) =>
        SampleAccounted(ret.stats)

\* a snapshot of more than 50 records, some of them without issue type
C15_Witness ==
    /\ call.op = "kb_stats"
    /\ "error" \notin ret.stats.keys
    /\ ret.stats.total_tickets > 50
    /\ ret.stats.sample_size = 50
    /\ Unknown \in DOMAIN ret.stats.issue_types

----------------------------------------------------------------------------
(* Frame properties *)

\* C16: only a successful add changes the collection, and it adds exactly
\* one record: a step that ends a search, a filter, a statistics call or an
\* add answered with an error leaves every stored record and the record
\* count as they were.
C16_OnlySuccessfulAddWrites ==
    [][/\ collection' # collection =>
             /\ \E c \in Callers : AddSucceeds(c)
             /\ ret'.op = "add"
             /\ Len(collection') = Len(collection) + 1
             /\ SubSeq(collection', 1, Len(collection)) = collection
       /\ (call'.op \in {"search", "filter", "stats"} \/ ret'.status = "error")
             => collection' = collection]_vars

\* an add whose store write failed, over a collection that holds a record
C16_Witness ==
    /\ call.op = "add"
    /\ call.store_failed
    /\ ret.status = "error"
    /\ Len(collection) = 1

====
